---------------------------- MODULE Spec2Model ----------------------------
(***************************************************************************)
(* The dog-picture pipeline of Asynchronous-JavaScript: read a breed from  *)
(* dog.txt, GET an image URL from dog.ceo, write the URL to dog-image.txt. *)
(*                                                                         *)
(* Two variants of the repository are modelled side by side, each with its *)
(* own copy of the output file and its own console, both against the same  *)
(* environment (content of dog.txt, answer of the HTTP server, state of    *)
(* the disk):                                                              *)
(*   "async"    - getDogPic and the top-level async block of index.js      *)
(*   "callback" - the nested-callback script (unnamed/part_000)            *)
(* README.md pins superagent ^10.3.0 (Node >= 14.18), so fs.writeFile      *)
(* rejects a non-string, non-buffer data argument by throwing a TypeError  *)
(* synchronously, before the file is opened.                               *)
(***************************************************************************)
EXTENDS Integers, Sequences, FiniteSets, TLC

VARIABLES run, env, prev, pc, calls, pending, file, fileAtStart, log, settled, ret

vars == <<run, env, prev, pc, calls, pending, file, fileAtStart, log, settled, ret>>

\* Number of times the operator runs the program one after the other.
MaxRuns == 2

Variants == {"callback", "async"}

--------------------------------------------------------------------------
\* JavaScript values that reach fs.writeFile as its data argument.
Str(s) == [t |-> "string", v |-> s]

Undefined == [t |-> "undefined", v |-> ""]

NoData == [t |-> "none", v |-> ""]

\* The resources of the program.
DogTxt == "dog.txt"

DogImageTxt == "dog-image.txt"

--------------------------------------------------------------------------
\* The environment of one run.

\* Content of dog.txt, used verbatim (no trimming, no escaping).
Breeds == {"hound", "hound\n", "bull dog"}

ReadErrMsg == "ENOENT: no such file or directory, open 'dog.txt'"

ReadOutcomes ==
    {[ok |-> TRUE, data |-> b, err |-> ""] : b \in Breeds}
        \cup {[ok |-> FALSE, data |-> "", err |-> ReadErrMsg]}

Url1 == "https://images.dog.ceo/x.jpg"

Url2 == "https://images.dog.ceo/y.jpg"

NotFoundBody == "Breed not found (master breed does not exist)"

HttpOutcomes ==
    {[kind |-> "response", status |-> 200, hasMessage |-> TRUE, message |-> Url1],
     [kind |-> "response", status |-> 200, hasMessage |-> TRUE, message |-> Url2],
     [kind |-> "response", status |-> 200, hasMessage |-> FALSE, message |-> ""],
     [kind |-> "response", status |-> 404, hasMessage |-> TRUE, message |-> NotFoundBody],
     [kind |-> "transport", status |-> 0, hasMessage |-> FALSE, message |-> ""]}

\* State of the disk when dog-image.txt is written: the write goes through,
\* the open is refused (content untouched), or the open truncates the file
\* and the write then fails.
DiskOutcomes == {"ok", "EACCES", "ENOSPC"}

Envs == [read : ReadOutcomes, http : HttpOutcomes, disk : DiskOutcomes]

\* Content of dog-image.txt before the first run.
InitialFiles == {"", "https://images.dog.ceo/old.jpg"}

--------------------------------------------------------------------------
\* Promises and what they settle to.
NoResponse == [kind |-> "none", status |-> 0, hasMessage |-> FALSE, message |-> ""]

Unsettled == [state |-> "pending", err |-> "", str |-> "", resp |-> NoResponse]

Fulfilled(s) == [state |-> "fulfilled", err |-> "", str |-> s, resp |-> NoResponse]

FulfilledResp(r) == [state |-> "fulfilled", err |-> "", str |-> "", resp |-> r]

Rejected(m) == [state |-> "rejected", err |-> m, str |-> "", resp |-> NoResponse]

\* Console output.
Out(text, arg) == [stream |-> "log", text |-> text, arg |-> arg]

Err(text, arg) == [stream |-> "error", text |-> text, arg |-> arg]

Uncaught(arg) == [stream |-> "uncaught", text |-> "TypeError", arg |-> arg]

\* console.log of a value
Show(val) == IF val.t = "string" THEN val.v ELSE "undefined"

\* A stage invocation.
Call(op, target, data) == [op |-> op, target |-> target, data |-> data]

--------------------------------------------------------------------------
\* Helpers of both variants.

\* The breed trimmed before it is substituted.
requestUrl_trimmed(breed) ==
    "https://dog.ceo/api/breed/"
        \o (IF breed = "hound\n" THEN "hound" ELSE breed)
        \o "/images/random"

\* index.js:70-72, the template literal of the request URL.
requestUrl(breed) == "https://dog.ceo/api/breed/" \o breed \o "/images/random"

\* The breed percent-encoded before it is substituted.
cb_requestUrl_encoded(data) ==
    "https://dog.ceo/api/breed/"
        \o (CASE data = "bull dog" -> "bull%20dog"
              [] data = "hound\n" -> "hound%0A"
              [] OTHER -> data)
        \o "/images/random"

\* part_000:8, the same template in the callback script.
cb_requestUrl(data) == "https://dog.ceo/api/breed/" \o data \o "/images/random"

\* superagent: a response is an error unless its status is 2xx.
isResponseOK(status) == status >= 200 /\ status < 300

HttpErrMsg(http) ==
    IF http.kind = "transport" THEN "getaddrinfo ENOTFOUND dog.ceo" ELSE "Not Found"

\* What `await superagent.get(url)` settles to, and what .end((err, res))
\* passes as err (rejected) or res (fulfilled).
superagent_get(http) ==
    IF http.kind = "response" /\ isResponseOK(http.status)
    THEN FulfilledResp(http)
    ELSE Rejected(HttpErrMsg(http))

\* The whole body handed on instead of its message field.
bodyMessage_wholeBody(resp) == Str("[object Object]")

\* response.body.message (index.js:73,75) / res.body.message (part_000:11,12)
bodyMessage(resp) == IF resp.hasMessage THEN Str(resp.message) ELSE Undefined

\* fs.writeFile validates its data argument before it opens the file.
validData(data) == data.t = "string"

TypeErrMsg ==
    "The 'data' argument must be of type string or an instance of Buffer, TypedArray, or DataView. Received undefined"

\* err of the fs.writeFile callback ("" stands for null).
diskErr(disk) ==
    CASE disk = "ok" -> ""
      [] disk = "EACCES" -> "EACCES: permission denied, open 'dog-image.txt'"
      [] disk = "ENOSPC" -> "ENOSPC: no space left on device, write"

\* The data appended to the file (flag 'a') instead of replacing it.
writeFileContent_append(old, data, disk) ==
    CASE disk = "ok" -> old \o data.v
      [] disk = "EACCES" -> old
      [] disk = "ENOSPC" -> old

\* Content of the file after fs.writeFile(file, data, cb) (flag 'w') ran on a
\* file holding `old`.
writeFileContent(old, data, disk) ==
    CASE disk = "ok" -> data.v
      [] disk = "EACCES" -> old
      [] disk = "ENOSPC" -> ""

\* The error of fs.readFile dropped: the promise always resolves with data.
readFilePro_settle_ignoreErr(r) == Fulfilled(r.data)

\* index.js:29-32, the callback readFilePro hands to fs.readFile.
readFilePro_settle(r) == IF ~r.ok THEN Rejected(r.err) ELSE Fulfilled(r.data)

\* reject(err) forgotten: on an error the promise never settles.
writeFilePro_settle_noReject(err) == IF err # "" THEN Unsettled ELSE Fulfilled("success")

\* index.js:38-41, the callback writeFilePro hands to fs.writeFile.
writeFilePro_settle(err) == IF err # "" THEN Rejected(err) ELSE Fulfilled("success")

\* The error swallowed by getDogPic's catch instead of thrown on.
getDogPic_catch_swallow(err) == Fulfilled("undefined")

\* index.js:79-81, catch (err) { throw new Error(err.message) }
getDogPic_catch(err) == Rejected(err)

\* index.js:78
getDogPic_return == Fulfilled("Step: 2: ready!")

\* index.js:90-92, the catch of the top-level async block.
IIFE_catch(err) == <<Err("asyncError", err)>>

LastData(cs) == cs[Len(cs)].data

--------------------------------------------------------------------------
Init ==
    /\ run = 1
    /\ env \in Envs
    /\ \E f \in InitialFiles :
          /\ file = [v \in Variants |-> f]
          /\ fileAtStart = [v \in Variants |-> f]
    /\ prev = [valid |-> FALSE, env |-> env, file |-> file]
    /\ pc = [v \in Variants |-> "start"]
    /\ calls = [v \in Variants |-> <<>>]
    /\ pending = [v \in Variants |-> {}]
    /\ log = [v \in Variants |-> <<>>]
    /\ settled = Unsettled
    /\ ret = Unsettled

--------------------------------------------------------------------------
\* The async/await variant (index.js).

\* await forgotten before readFilePro: getDogPic goes on to the request with
\* the promise itself as the breed while the read is still in flight.
IIFE_start_noAwait ==
    /\ pc["async"] = "start"
    /\ log' = [log EXCEPT !["async"] =
                  @ \o <<Out("Step 1: will get dog pics!", ""),
                         Out("Dog breed:", "[object Promise]")>>]
    /\ calls' = [calls EXCEPT !["async"] =
                    @ \o <<Call("readFile", DogTxt, NoData),
                           Call("get", requestUrl("[object Promise]"), NoData)>>]
    /\ pending' = [pending EXCEPT !["async"] = @ \cup {"readFile", "get"}]
    /\ settled' = Unsettled
    /\ pc' = [pc EXCEPT !["async"] = "awaitGet"]
    /\ UNCHANGED <<run, env, prev, file, fileAtStart, ret>>

\* index.js:84-87, 45-47, 27-29: the top-level block logs step 1 and calls
\* getDogPic, which runs up to its first await: readFilePro has called
\* fs.readFile.
IIFE_start ==
    /\ pc["async"] = "start"
    /\ log' = [log EXCEPT !["async"] = Append(@, Out("Step 1: will get dog pics!", ""))]
    /\ calls' = [calls EXCEPT !["async"] = Append(@, Call("readFile", DogTxt, NoData))]
    /\ pending' = [pending EXCEPT !["async"] = @ \cup {"readFile"}]
    /\ settled' = Unsettled
    /\ pc' = [pc EXCEPT !["async"] = "awaitRead"]
    /\ UNCHANGED <<run, env, prev, file, fileAtStart, ret>>

\* index.js:29-32: fs.readFile completes and settles readFilePro's promise.
readFilePro_cb ==
    /\ pc["async"] = "awaitRead"
    /\ "readFile" \in pending["async"]
    /\ settled' = readFilePro_settle(env.read)
    /\ pending' = [pending EXCEPT !["async"] = @ \ {"readFile"}]
    /\ pc' = [pc EXCEPT !["async"] = "readSettled"]
    /\ UNCHANGED <<run, env, prev, calls, file, fileAtStart, log, ret>>

\* index.js:47-72: getDogPic resumes after the first await.
getDogPic_afterRead ==
    /\ pc["async"] = "readSettled"
    /\ settled.state # "pending"
    /\ IF settled.state = "rejected"
       THEN /\ ret' = getDogPic_catch(settled.err)
            /\ pc' = [pc EXCEPT !["async"] = "getDogPicSettled"]
            /\ UNCHANGED <<log, calls, pending, settled>>
       ELSE /\ log' = [log EXCEPT !["async"] = Append(@, Out("Dog breed:", settled.str))]
            /\ calls' = [calls EXCEPT !["async"] =
                            Append(@, Call("get", requestUrl(settled.str), NoData))]
            /\ pending' = [pending EXCEPT !["async"] = @ \cup {"get"}]
            /\ settled' = Unsettled
            /\ pc' = [pc EXCEPT !["async"] = "awaitGet"]
            /\ UNCHANGED ret
    /\ UNCHANGED <<run, env, prev, file, fileAtStart>>

\* index.js:70-72: the request completes and settles superagent's promise.
superagent_then ==
    /\ pc["async"] = "awaitGet"
    /\ "get" \in pending["async"]
    /\ settled' = superagent_get(env.http)
    /\ pending' = [pending EXCEPT !["async"] = @ \ {"get"}]
    /\ pc' = [pc EXCEPT !["async"] = "getSettled"]
    /\ UNCHANGED <<run, env, prev, calls, file, fileAtStart, log, ret>>

\* index.js:70-75, 36-38: getDogPic resumes after the second await, logs the
\* message and calls writeFilePro, whose executor calls fs.writeFile.  A
\* throw of fs.writeFile inside the executor rejects the promise.
getDogPic_afterGet ==
    /\ pc["async"] = "getSettled"
    /\ settled.state # "pending"
    /\ IF settled.state = "rejected"
       THEN /\ ret' = getDogPic_catch(settled.err)
            /\ pc' = [pc EXCEPT !["async"] = "getDogPicSettled"]
            /\ UNCHANGED <<log, calls, pending, settled>>
       ELSE LET message == bodyMessage(settled.resp) IN
            /\ log' = [log EXCEPT !["async"] = Append(@, Out("Dog image URL:", Show(message)))]
            /\ calls' = [calls EXCEPT !["async"] =
                            Append(@, Call("writeFile", DogImageTxt, message))]
            /\ IF validData(message)
               THEN /\ pending' = [pending EXCEPT !["async"] = @ \cup {"writeFile"}]
                    /\ settled' = Unsettled
                    /\ pc' = [pc EXCEPT !["async"] = "awaitWrite"]
               ELSE /\ settled' = Rejected(TypeErrMsg)
                    /\ pc' = [pc EXCEPT !["async"] = "writeSettled"]
                    /\ UNCHANGED pending
            /\ UNCHANGED ret
    /\ UNCHANGED <<run, env, prev, file, fileAtStart>>

\* index.js:38-41: fs.writeFile completes and settles writeFilePro's promise.
writeFilePro_cb ==
    /\ pc["async"] = "awaitWrite"
    /\ "writeFile" \in pending["async"]
    /\ file' = [file EXCEPT !["async"] =
                   writeFileContent(@, LastData(calls["async"]), env.disk)]
    /\ settled' = writeFilePro_settle(diskErr(env.disk))
    /\ pending' = [pending EXCEPT !["async"] = @ \ {"writeFile"}]
    /\ pc' = [pc EXCEPT !["async"] = "writeSettled"]
    /\ UNCHANGED <<run, env, prev, calls, fileAtStart, log, ret>>

\* index.js:75-81: getDogPic resumes after the third await.
getDogPic_afterWrite ==
    /\ pc["async"] = "writeSettled"
    /\ settled.state # "pending"
    /\ IF settled.state = "rejected"
       THEN /\ ret' = getDogPic_catch(settled.err)
            /\ UNCHANGED log
       ELSE /\ log' = [log EXCEPT !["async"] =
                          Append(@, Out("Dog image URL saved to dog-image.txt", ""))]
            /\ ret' = getDogPic_return
    /\ pc' = [pc EXCEPT !["async"] = "getDogPicSettled"]
    /\ UNCHANGED <<run, env, prev, calls, pending, file, fileAtStart, settled>>

\* index.js:87-92: the top-level block resumes after await getDogPic().
IIFE_afterGetDogPic ==
    /\ pc["async"] = "getDogPicSettled"
    /\ ret.state # "pending"
    /\ IF ret.state = "rejected"
       THEN log' = [log EXCEPT !["async"] = @ \o IIFE_catch(ret.err)]
       ELSE log' = [log EXCEPT !["async"] =
                       @ \o <<Out(ret.str, ""), Out("Step 3: done getting dog pics!", "")>>]
    /\ pc' = [pc EXCEPT !["async"] = "done"]
    /\ UNCHANGED <<run, env, prev, calls, pending, file, fileAtStart, settled, ret>>

--------------------------------------------------------------------------
\* The callback variant (unnamed/part_000).

\* part_000:4: the script calls fs.readFile.
cb_start ==
    /\ pc["callback"] = "start"
    /\ calls' = [calls EXCEPT !["callback"] = Append(@, Call("readFile", DogTxt, NoData))]
    /\ pending' = [pending EXCEPT !["callback"] = @ \cup {"readFile"}]
    /\ pc' = [pc EXCEPT !["callback"] = "awaitRead"]
    /\ UNCHANGED <<run, env, prev, file, fileAtStart, log, settled, ret>>

\* part_000:4-9: the fs.readFile callback.
cb_readFile ==
    /\ pc["callback"] = "awaitRead"
    /\ "readFile" \in pending["callback"]
    /\ IF ~env.read.ok
       THEN /\ log' = [log EXCEPT !["callback"] =
                          Append(@, Err("Error reading file:", env.read.err))]
            /\ pending' = [pending EXCEPT !["callback"] = @ \ {"readFile"}]
            /\ pc' = [pc EXCEPT !["callback"] = "done"]
            /\ UNCHANGED calls
       ELSE /\ log' = [log EXCEPT !["callback"] = Append(@, Out("Dog breed:", env.read.data))]
            /\ calls' = [calls EXCEPT !["callback"] =
                            Append(@, Call("get", cb_requestUrl(env.read.data), NoData))]
            /\ pending' = [pending EXCEPT !["callback"] = (@ \ {"readFile"}) \cup {"get"}]
            /\ pc' = [pc EXCEPT !["callback"] = "awaitGet"]
    /\ UNCHANGED <<run, env, prev, file, fileAtStart, settled, ret>>

\* return forgotten in front of console.error: after an HTTP error (res is
\* still passed) the callback goes on to write res.body.message.
cb_end_noReturn ==
    /\ pc["callback"] = "awaitGet"
    /\ "get" \in pending["callback"]
    /\ env.http.kind = "response"
    /\ LET r == superagent_get(env.http)
           message == bodyMessage(env.http)
           errs == IF r.state = "rejected"
                   THEN <<Err("Error fetching dog image:", r.err)>> ELSE <<>>
       IN  /\ calls' = [calls EXCEPT !["callback"] =
                           Append(@, Call("writeFile", DogImageTxt, message))]
           /\ log' = [log EXCEPT !["callback"] =
                         @ \o errs \o <<Out("Dog image URL:", Show(message))>>]
           /\ pending' = [pending EXCEPT !["callback"] = (@ \ {"get"}) \cup {"writeFile"}]
           /\ pc' = [pc EXCEPT !["callback"] = "awaitWrite"]
    /\ UNCHANGED <<run, env, prev, file, fileAtStart, settled, ret>>

\* part_000:9-12: the .end callback.  A throw of fs.writeFile leaves the
\* callback as an uncaught exception: the runtime prints it and the process
\* ends.
cb_end ==
    /\ pc["callback"] = "awaitGet"
    /\ "get" \in pending["callback"]
    /\ LET r == superagent_get(env.http)
           message == bodyMessage(r.resp)
       IN  IF r.state = "rejected"
           THEN /\ log' = [log EXCEPT !["callback"] =
                              Append(@, Err("Error fetching dog image:", r.err))]
                /\ pending' = [pending EXCEPT !["callback"] = @ \ {"get"}]
                /\ pc' = [pc EXCEPT !["callback"] = "done"]
                /\ UNCHANGED calls
           ELSE /\ calls' = [calls EXCEPT !["callback"] =
                                Append(@, Call("writeFile", DogImageTxt, message))]
                /\ IF validData(message)
                   THEN /\ log' = [log EXCEPT !["callback"] =
                                      Append(@, Out("Dog image URL:", Show(message)))]
                        /\ pending' = [pending EXCEPT !["callback"] =
                                          (@ \ {"get"}) \cup {"writeFile"}]
                        /\ pc' = [pc EXCEPT !["callback"] = "awaitWrite"]
                   ELSE /\ log' = [log EXCEPT !["callback"] =
                                      @ \o <<Out("Dog image URL:", Show(message)),
                                             Uncaught(TypeErrMsg)>>]
                        /\ pending' = [pending EXCEPT !["callback"] = @ \ {"get"}]
                        /\ pc' = [pc EXCEPT !["callback"] = "crashed"]
    /\ UNCHANGED <<run, env, prev, file, fileAtStart, settled, ret>>

\* part_000:12-15: the fs.writeFile callback.
cb_writeFile ==
    /\ pc["callback"] = "awaitWrite"
    /\ "writeFile" \in pending["callback"]
    /\ file' = [file EXCEPT !["callback"] =
                   writeFileContent(@, LastData(calls["callback"]), env.disk)]
    /\ IF diskErr(env.disk) # ""
       THEN log' = [log EXCEPT !["callback"] =
                       Append(@, Err("Error writing file:", diskErr(env.disk)))]
       ELSE log' = [log EXCEPT !["callback"] =
                       Append(@, Out("Dog image URL saved to dog-image.txt", ""))]
    /\ pending' = [pending EXCEPT !["callback"] = @ \ {"writeFile"}]
    /\ pc' = [pc EXCEPT !["callback"] = "done"]
    /\ UNCHANGED <<run, env, prev, calls, fileAtStart, settled, ret>>

--------------------------------------------------------------------------
Terminal(v) == pc[v] \in {"done", "crashed"}

\* The operator runs the program again (index.js:84-93 and part_000:4 run at
\* process start) once the variants in V have ended; dog-image.txt keeps
\* what the last run left in it.
Rerun(V) ==
    /\ \A v \in V : Terminal(v)
    /\ run < MaxRuns
    /\ run' = run + 1
    /\ env' \in Envs
    /\ prev' = [valid |-> TRUE, env |-> env, file |-> file]
    /\ fileAtStart' = file
    /\ pc' = [v \in Variants |-> "start"]
    /\ calls' = [v \in Variants |-> <<>>]
    /\ pending' = [v \in Variants |-> {}]
    /\ log' = [v \in Variants |-> <<>>]
    /\ settled' = Unsettled
    /\ ret' = Unsettled
    /\ UNCHANGED file

NextRun == Rerun(Variants)

\* index.js run again on its own.
AsyncRerun == Rerun({"async"})

AsyncNext ==
    \/ IIFE_start
    \/ readFilePro_cb
    \/ getDogPic_afterRead
    \/ superagent_then
    \/ getDogPic_afterGet
    \/ writeFilePro_cb
    \/ getDogPic_afterWrite
    \/ IIFE_afterGetDogPic

Next ==
    \/ IIFE_start
    \/ readFilePro_cb
    \/ getDogPic_afterRead
    \/ superagent_then
    \/ getDogPic_afterGet
    \/ writeFilePro_cb
    \/ getDogPic_afterWrite
    \/ IIFE_afterGetDogPic
    \/ cb_start
    \/ cb_readFile
    \/ cb_end
    \/ cb_writeFile
    \/ NextRun

Spec == Init /\ [][Next]_vars

\* index.js on its own, run after run.
AsyncRunNext == AsyncNext \/ AsyncRerun

\* Every started I/O operation completes and every settled promise resumes
\* its awaiter (the event loop runs every queued callback and microtask).
FairSpec == Init /\ [][AsyncRunNext]_vars /\ WF_vars(AsyncNext)

--------------------------------------------------------------------------
\* Vocabulary of the properties.

Count(cs, op) == Cardinality({i \in 1..Len(cs) : cs[i].op = op})

Invoked(v, op) == Count(calls[v], op) > 0

OpsOf(cs) == [i \in 1..Len(cs) |-> cs[i].op]

StageOrder == <<"readFile", "get", "writeFile">>

IsPrefix(s, t) == Len(s) <= Len(t) /\ \A i \in 1..Len(s) : s[i] = t[i]

ReaderFails(e) == ~e.read.ok

Http2xx(e) == e.http.kind = "response" /\ e.http.status \in 200..299

\* The Fetcher fails: transport failure, non-2xx response, or a body without
\* a message field.
FetcherFails(e) == e.read.ok /\ (~Http2xx(e) \/ ~e.http.hasMessage)

FetcherSucceeds(e) == e.read.ok /\ Http2xx(e) /\ e.http.hasMessage

WriterFails(e) == FetcherSucceeds(e) /\ e.disk # "ok"

AllSucceed(e) == FetcherSucceeds(e) /\ e.disk = "ok"

\* The message of the first failure of a run.
FailureMsg(e) ==
    CASE ~e.read.ok -> ReadErrMsg
      [] e.read.ok /\ e.http.kind = "transport" -> "getaddrinfo ENOTFOUND dog.ceo"
      [] e.read.ok /\ e.http.kind = "response" /\ ~Http2xx(e) -> "Not Found"
      [] e.read.ok /\ Http2xx(e) /\ ~e.http.hasMessage -> TypeErrMsg
      [] WriterFails(e) /\ e.disk = "EACCES" ->
             "EACCES: permission denied, open 'dog-image.txt'"
      [] WriterFails(e) /\ e.disk = "ENOSPC" -> "ENOSPC: no space left on device, write"
      [] OTHER -> ""

\* Number of stage invocations a run makes before its first failure stops it.
StagesReached(e) ==
    CASE ~e.read.ok -> 1
      [] e.read.ok /\ ~Http2xx(e) -> 2
      [] OTHER -> 3

FailureEntries(l) == {i \in 1..Len(l) : l[i].stream \in {"error", "uncaught"}}

SuccessTexts ==
    {"Dog image URL saved to dog-image.txt", "Step: 2: ready!",
     "Step 3: done getting dog pics!"}

SuccessEntries(l) == {i \in 1..Len(l) : l[i].stream = "log" /\ l[i].text \in SuccessTexts}

\* The entry the callback script prints for the first failure of a run.
CallbackFailureEntry(e) ==
    CASE ~e.read.ok -> Err("Error reading file:", FailureMsg(e))
      [] e.read.ok /\ ~Http2xx(e) -> Err("Error fetching dog image:", FailureMsg(e))
      [] e.read.ok /\ Http2xx(e) /\ ~e.http.hasMessage -> Uncaught(FailureMsg(e))
      [] OTHER -> Err("Error writing file:", FailureMsg(e))

ExpectedUrl(b) ==
    CASE b = "hound" -> "https://dog.ceo/api/breed/hound/images/random"
      [] b = "hound\n" -> "https://dog.ceo/api/breed/hound\n/images/random"
      [] b = "bull dog" -> "https://dog.ceo/api/breed/bull dog/images/random"

--------------------------------------------------------------------------
\* C1: in both variants, when reading dog.txt fails, neither the HTTP GET
\* nor the write of dog-image.txt is invoked at any point of the run.
C1_ReaderFailureStopsPipeline ==
    \A v \in Variants :
        ReaderFails(env) => ~Invoked(v, "get") /\ ~Invoked(v, "writeFile")

C1_Witness ==
    /\ ReaderFails(env)
    /\ \A v \in Variants : Terminal(v) /\ Invoked(v, "readFile")

\* C2: when the Fetcher gets a non-2xx response or a body without a message
\* field, the Writer is never invoked in that run, and getDogPic's promise
\* rejects.
C2_FetcherFailureSkipsWriter ==
    \A v \in Variants :
        (env.read.ok /\ env.http.kind = "response"
            /\ (~Http2xx(env) \/ ~env.http.hasMessage))
        => /\ ~Invoked(v, "writeFile")
           /\ pc["async"] = "done" => ret.state = "rejected"

\* C3: in a run in which all three stages succeed, the Writer is invoked
\* exactly once, with exactly the message string of the response as data,
\* and dog-image.txt ends up holding exactly that string.
C3_SuccessWritesMessageOnce ==
    \A v \in Variants :
        AllSucceed(env) =>
            /\ Count(calls[v], "writeFile") <= 1
            /\ Terminal(v) =>
                  /\ Count(calls[v], "writeFile") = 1
                  /\ calls[v][3] = Call("writeFile", DogImageTxt, Str(env.http.message))
                  /\ file[v] = env.http.message

C3_Witness ==
    /\ AllSucceed(env)
    /\ env.http.message = Url1
    /\ \A v \in Variants : Terminal(v) /\ fileAtStart[v] # Url1

\* C4: the stages are invoked in the order Reader, Fetcher, Writer, each
\* only once the one before it has completed: only the stage invoked last
\* can be in flight, so never two at a time.
C4_StagesSequential ==
    \A v \in Variants :
        /\ IsPrefix(OpsOf(calls[v]), StageOrder)
        /\ Cardinality(pending[v]) <= 1
        /\ pending[v] # {} => pending[v] = {calls[v][Len(calls[v])].op}

C4_Witness ==
    \A v \in Variants : pending[v] = {"writeFile"} /\ Len(calls[v]) = 3

\* C5 as stated: whenever a stage fails, the failure is logged exactly once,
\* by the catch of the top-level async block ({asyncError}) and by no other
\* place, the remaining stages are skipped and no success message follows.
C5_FailureLoggedOnceByOuterHandler ==
    \A v \in Variants :
        (Terminal(v) /\ ~AllSucceed(env)) =>
            /\ Len(calls[v]) = StagesReached(env)
            /\ Cardinality(FailureEntries(log[v])) = 1
            /\ log[v][Len(log[v])] = Err("asyncError", FailureMsg(env))
            /\ SuccessEntries(log[v]) = {}

\* C5 as amended: whenever a stage fails, the remaining stages are skipped,
\* the failure is reported exactly once and nothing is logged after it; in
\* the async/await variant the report is {asyncError: message} from the catch
\* of the top-level block, in the callback variant it is the failing stage's
\* own error callback (and the runtime's uncaught-exception report when
\* fs.writeFile throws on an undefined message).
C5_FailureLoggedOnce ==
    \A v \in Variants :
        /\ \A i \in FailureEntries(log[v]) : i = Len(log[v])
        /\ (Terminal(v) /\ ~AllSucceed(env)) =>
              /\ Len(calls[v]) = StagesReached(env)
              /\ Cardinality(FailureEntries(log[v])) = 1
              /\ SuccessEntries(log[v]) = {}
              /\ log[v][Len(log[v])] =
                    IF v = "async" THEN Err("asyncError", FailureMsg(env))
                    ELSE CallbackFailureEntry(env)

C5_Witness ==
    /\ WriterFails(env)
    /\ \A v \in Variants : Terminal(v) /\ Len(calls[v]) = 3

\* C6: in a run in which the Reader succeeds with breed b, exactly one HTTP
\* GET is issued, and its URL is https://dog.ceo/api/breed/<b>/images/random
\* with b exactly as read.
C6_OneGetWithTemplateUrl ==
    \A v \in Variants :
        env.read.ok =>
            /\ Count(calls[v], "get") <= 1
            /\ (Terminal(v) \/ Len(calls[v]) >= 2) =>
                  /\ Count(calls[v], "get") = 1
                  /\ calls[v][2] = Call("get", ExpectedUrl(env.read.data), NoData)

C6_Witness ==
    /\ env.read.ok
    /\ env.read.data = "hound\n"
    /\ \A v \in Variants : Terminal(v)

\* C7: a second run with the same input, the same response and the same
\* disk as the run before it leaves dog-image.txt with the content the run
\* before it left: a write replaces the content, nothing accumulates.
C7_SecondRunSameContent ==
    \A v \in Variants :
        (prev.valid /\ prev.env = env /\ Terminal(v)) => file[v] = prev.file[v]

C7_Witness ==
    /\ prev.valid
    /\ prev.env = env
    /\ AllSucceed(env)
    /\ \A v \in Variants : Terminal(v) /\ file[v] = env.http.message

\* C8: for every combination of outcomes the two variants make the same
\* stage invocations with the same arguments, leave the same content in
\* dog-image.txt, and report a failure in the same cases.
C8_VariantsEquivalent ==
    (\A v \in Variants : Terminal(v)) =>
        /\ calls["async"] = calls["callback"]
        /\ file["async"] = file["callback"]
        /\ (FailureEntries(log["async"]) # {}) <=> (FailureEntries(log["callback"]) # {})

C8_Witness ==
    /\ \A v \in Variants : Terminal(v)
    /\ Len(calls["async"]) = 3
    /\ FailureEntries(log["callback"]) # {}
    /\ run = 2

\* C9: in a run in which the Reader or the Fetcher fails (a response without
\* a message field included), dog-image.txt keeps the content it had at the
\* start of the run; only a run whose Fetcher succeeded changes it.
C9_FailedRunKeepsOutput ==
    \A v \in Variants :
        /\ (ReaderFails(env) \/ FetcherFails(env)) => file[v] = fileAtStart[v]
        /\ file[v] # fileAtStart[v] => FetcherSucceeds(env)

C9_Witness ==
    /\ FetcherFails(env)
    /\ Http2xx(env)
    /\ \A v \in Variants : Terminal(v) /\ Invoked(v, "writeFile") /\ file[v] # ""

\* C10: every run of the top-level async block eventually ends with exactly
\* one outcome: success (step 1, then step 2, then step 3 logged) or failure
\* ({asyncError} logged), never both and never neither.
Step1 == Out("Step 1: will get dog pics!", "")

Step2 == Out("Step: 2: ready!", "")

Step3 == Out("Step 3: done getting dog pics!", "")

SuccessOutcome(l) ==
    \E i, j, k \in 1..Len(l) :
        i < j /\ j < k /\ l[i] = Step1 /\ l[j] = Step2 /\ l[k] = Step3

FailureOutcome(l) == \E i \in 1..Len(l) : l[i].stream = "error" /\ l[i].text = "asyncError"

C10_ExactlyOneOutcome ==
    /\ \A r \in 1..MaxRuns :
          (run = r /\ pc["async"] = "start") ~>
              (run = r /\ pc["async"] = "done"
                  /\ (SuccessOutcome(log["async"]) \/ FailureOutcome(log["async"])))
    /\ [](~(SuccessOutcome(log["async"]) /\ FailureOutcome(log["async"])))
    /\ [](Terminal("async") =>
             (SuccessOutcome(log["async"]) \/ FailureOutcome(log["async"])))

C10_Witness ==
    /\ run = MaxRuns
    /\ pc["async"] = "done"
    /\ SuccessOutcome(log["async"])
    /\ ~FailureOutcome(log["async"])

==========================================================================
